---- MODULE Spec2Model ----
(***************************************************************************)
(* Model of the SAMA Discord webhook reminder (Reminder.py) and of the     *)
(* personal task bot (discord_bot.py).                                     *)
(*                                                                         *)
(* Task records are the JSON values the Notion query returns.  A JSON /    *)
(* Python value is a tagged record:                                        *)
(*   [t |-> "none"]              None                                      *)
(*   [t |-> "str",  s |-> "..."] a string                                  *)
(*   [t |-> "int",  n |-> 5]     a number                                  *)
(*   [t |-> "list", l |-> <<>>]  a list                                    *)
(*   [t |-> "dict", d |-> f]     a mapping, f a function on its keys       *)
(*   [t |-> "exc",  e |-> "KeyError"]  an exception raised by evaluation   *)
(* The emoji of the message texts are single code points; they are         *)
(* written "#" here (one character each), the bullet as "-" and the dash   *)
(* as "~", so that every length is the length Python computes.             *)
(***************************************************************************)
EXTENDS Integers, Sequences, FiniteSets, TLC

VARIABLES
    props,        \* SpecExtract: the property mapping handed to the extractors
    extracted,    \* SpecExtract: what the three extractors returned or raised
    today,        \* module global `today` (a date), set when the module loads
    db,           \* the task source: the result list its query returns
    entry,        \* Spec: the entry point that runs, "reminder" or "bot"
    pc,           \* Spec: where the run is
    idx,          \* Spec: index of the next record of the running loop
    queries,      \* Spec: the task-source queries issued, in order
    processed,    \* Spec: the records whose loop body ran, with the outcome
    posts,        \* Spec: the webhook POSTs attempted, in order
    tasks,        \* Spec: what get_user_tasks returned (Unset before)
    person,       \* Spec: the person_name get_user_tasks was called with
    summary,      \* SpecRender: the message_parts and text format_task_summary built
    clock,        \* SpecBot: the calendar date it is now
    inbox,        \* SpecBot: messages users have sent that the bot has not dispatched yet
    hs,           \* SpecBot: the on_message coroutines, in dispatch order
    blocked,      \* SpecBot: the coroutine that holds the thread in requests.post, or 0
    outbox        \* SpecBot: per on_message call, the channel sends it attempted, in order

botVars == <<clock, inbox, hs, blocked, outbox>>

-----------------------------------------------------------------------------
(* Python values *)

PyNone == [t |-> "none"]
PyStr(s) == [t |-> "str", s |-> s]
PyInt(n) == [t |-> "int", n |-> n]
PyList(l) == [t |-> "list", l |-> l]
PyDict(d) == [t |-> "dict", d |-> d]
Raise(e) == [t |-> "exc", e |-> e]
EmptyDict == PyDict(<<>>)

IsExc(v) == v.t = "exc"

\* bool(v): None, "", 0, [] and {} are false
Truthy(v) ==
    CASE v.t = "none" -> FALSE
      [] v.t = "str"  -> v.s # ""
      [] v.t = "int"  -> v.n # 0
      [] v.t = "list" -> Len(v.l) > 0
      [] v.t = "dict" -> DOMAIN v.d # {}

\* v.get(k, default): only a mapping has .get
Get(v, k, default) ==
    IF v.t = "dict"
    THEN IF k \in DOMAIN v.d THEN v.d[k] ELSE default
    ELSE Raise("AttributeError")

\* v[k] for a string key k
GetItem(v, k) ==
    IF v.t = "dict"
    THEN IF k \in DOMAIN v.d THEN v.d[k] ELSE Raise("KeyError")
    ELSE Raise("TypeError")

\* v[0]
Item0(v) ==
    CASE v.t = "list" -> IF Len(v.l) > 0 THEN v.l[1] ELSE Raise("IndexError")
      [] v.t = "str"  -> IF v.s # "" THEN PyStr(SubSeq(v.s, 1, 1)) ELSE Raise("IndexError")
      [] v.t = "dict" -> Raise("KeyError")
      [] OTHER        -> Raise("TypeError")

\* len(v)
PyLen(v) ==
    CASE v.t = "list" -> PyInt(Len(v.l))
      [] v.t = "str"  -> PyInt(Len(v.s))
      [] v.t = "dict" -> PyInt(Cardinality(DOMAIN v.d))
      [] OTHER        -> Raise("TypeError")

Whitespace == {" ", "\t", "\n"}

RECURSIVE LStrip(_)
LStrip(s) ==
    IF s # "" /\ SubSeq(s, 1, 1) \in Whitespace
    THEN LStrip(SubSeq(s, 2, Len(s)))
    ELSE s

RECURSIVE RStrip(_)
RStrip(s) ==
    IF s # "" /\ SubSeq(s, Len(s), Len(s)) \in Whitespace
    THEN RStrip(SubSeq(s, 1, Len(s) - 1))
    ELSE s

\* v.strip(): only a string has .strip
Strip(v) ==
    IF v.t = "str" THEN PyStr(RStrip(LStrip(v.s))) ELSE Raise("AttributeError")

-----------------------------------------------------------------------------
(* Record Extractor: the same three functions in Reminder.py and           *)
(* discord_bot.py                                                          *)

UnnamedTask == PyStr("Unnamed Task")

extract_task_name(p) ==
    LET task_prop == Get(p, "Task", EmptyDict) IN
    IF IsExc(task_prop) THEN task_prop ELSE
    LET title == Get(task_prop, "title", PyNone) IN
    IF IsExc(title) THEN title ELSE
    IF ~Truthy(title) THEN UnnamedTask ELSE
    LET n == PyLen(title) IN
    IF IsExc(n) THEN n ELSE
    IF ~(n.n > 0) THEN UnnamedTask ELSE
    LET first_block == Item0(title) IN
    IF IsExc(first_block) THEN first_block ELSE
    LET text == Get(first_block, "text", EmptyDict) IN
    IF IsExc(text) THEN text ELSE
    LET content == Get(text, "content", PyNone) IN
    IF IsExc(content) THEN content ELSE
    IF ~Truthy(content) THEN UnnamedTask ELSE
    LET name == Strip(content) IN
    IF IsExc(name) THEN name ELSE
    IF name.s # "" THEN name ELSE UnnamedTask

\* the loop `for person in ...: if person.get("name"): append(person["name"])`
RECURSIVE CollectNames(_)
CollectNames(l) ==
    IF Len(l) = 0 THEN PyList(<<>>) ELSE
    LET nm == Get(l[1], "name", PyNone) IN
    IF IsExc(nm) THEN nm ELSE
    LET rest == CollectNames(Tail(l)) IN
    IF IsExc(rest) THEN rest ELSE
    IF Truthy(nm) THEN PyList(<<nm>> \o rest.l) ELSE rest

extract_assigned_people(p) ==
    LET assign_prop == Get(p, "Assign", EmptyDict) IN
    IF IsExc(assign_prop) THEN assign_prop ELSE
    LET people == Get(assign_prop, "people", PyNone) IN
    IF IsExc(people) THEN people ELSE
    IF Truthy(people) /\ people.t = "list" THEN CollectNames(people.l) ELSE
    LET multi == Get(assign_prop, "multi_select", PyNone) IN
    IF Truthy(multi) /\ multi.t = "list" THEN CollectNames(multi.l) ELSE
    PyList(<<>>)

\* `x.get(k) and x[k].get("name")`: truthy iff x[k] is truthy and has a truthy
\* name; raises when x[k] is truthy and not a mapping
NamedIn(x, k) ==
    LET v == Get(x, k, PyNone) IN
    IF IsExc(v) THEN v ELSE
    IF ~Truthy(v) THEN PyNone ELSE
    Get(v, "name", PyNone)

extract_task_status(p) ==
    LET status_prop == Get(p, "Status", EmptyDict) IN
    IF IsExc(status_prop) THEN status_prop ELSE
    LET st == NamedIn(status_prop, "status") IN
    IF IsExc(st) THEN st ELSE
    IF Truthy(st) THEN st ELSE
    LET sel == NamedIn(status_prop, "select") IN
    IF IsExc(sel) THEN sel ELSE
    IF Truthy(sel) THEN sel ELSE
    LET multi == Get(status_prop, "multi_select", PyNone) IN
    IF ~Truthy(multi) THEN PyNone ELSE
    LET n == PyLen(multi) IN
    IF IsExc(n) THEN n ELSE
    IF ~(n.n > 0) THEN PyNone ELSE
    LET first == Item0(multi) IN
    IF IsExc(first) THEN first ELSE
    Get(first, "name", PyNone)

-----------------------------------------------------------------------------
(* Strings *)

UpperChars == "ABCDEFGHIJKLMNOPQRSTUVWXYZ"
LowerChars == "abcdefghijklmnopqrstuvwxyz"

\* position of character c in s, 0 when it is not there
RECURSIVE Pos(_, _, _)
Pos(c, s, i) ==
    IF i > Len(s) THEN 0
    ELSE IF SubSeq(s, i, i) = c THEN i ELSE Pos(c, s, i + 1)

\* the lower-case letter of each upper-case letter, and the reverse
ToLower ==
    [c \in {SubSeq(UpperChars, i, i) : i \in 1..Len(UpperChars)} |->
        SubSeq(LowerChars, Pos(c, UpperChars, 1), Pos(c, UpperChars, 1))]

ToUpper ==
    [c \in {SubSeq(LowerChars, i, i) : i \in 1..Len(LowerChars)} |->
        SubSeq(UpperChars, Pos(c, LowerChars, 1), Pos(c, LowerChars, 1))]

LowerChar(c) == IF c \in DOMAIN ToLower THEN ToLower[c] ELSE c

UpperChar(c) == IF c \in DOMAIN ToUpper THEN ToUpper[c] ELSE c

\* str.lower()
RECURSIVE Lower(_)
Lower(s) ==
    IF s = "" THEN "" ELSE LowerChar(SubSeq(s, 1, 1)) \o Lower(SubSeq(s, 2, Len(s)))

\* str.upper().replace(' ', '_')
RECURSIVE UpperUnderscore(_)
UpperUnderscore(s) ==
    IF s = "" THEN ""
    ELSE LET c == UpperChar(SubSeq(s, 1, 1)) IN
         (IF c = " " THEN "_" ELSE c) \o UpperUnderscore(SubSeq(s, 2, Len(s)))

\* sep.join(l) for a sequence of strings
RECURSIVE Join(_, _)
Join(sep, l) ==
    IF Len(l) = 0 THEN ""
    ELSE IF Len(l) = 1 THEN l[1]
    ELSE l[1] \o sep \o Join(sep, Tail(l))

\* sub in s
Contains(s, sub) ==
    \E k \in 1..(Len(s) - Len(sub) + 1) : SubSeq(s, k, k + Len(sub) - 1) = sub

-----------------------------------------------------------------------------
(* Calendar dates: datetime.date, a (year, month, day) triple *)

MkDate(y, m, d) == [t |-> "date", y |-> y, m |-> m, d |-> d]

IsLeap(y) == y % 4 = 0 /\ (y % 100 # 0 \/ y % 400 = 0)

DaysInMonth(y, m) ==
    IF m = 2 THEN (IF IsLeap(y) THEN 29 ELSE 28)
    ELSE IF m \in {4, 6, 9, 11} THEN 30 ELSE 31

\* a < b and a <= b on dates
DateLT(a, b) ==
    \/ a.y < b.y
    \/ a.y = b.y /\ a.m < b.m
    \/ a.y = b.y /\ a.m = b.m /\ a.d < b.d

DateLE(a, b) == a = b \/ DateLT(a, b)

NextDay(dt) ==
    IF dt.d < DaysInMonth(dt.y, dt.m) THEN MkDate(dt.y, dt.m, dt.d + 1)
    ELSE IF dt.m < 12 THEN MkDate(dt.y, dt.m + 1, 1)
    ELSE MkDate(dt.y + 1, 1, 1)

\* dt + timedelta(days=n), n >= 0
RECURSIVE AddDays(_, _)
AddDays(dt, n) == IF n = 0 THEN dt ELSE AddDays(NextDay(dt), n - 1)

DigitChars == "0123456789"

IsDigits(s) == \A k \in 1..Len(s) : Pos(SubSeq(s, k, k), DigitChars, 1) # 0

\* int(s) for a string of digits
RECURSIVE NumOf(_)
NumOf(s) ==
    IF s = "" THEN 0
    ELSE 10 * NumOf(SubSeq(s, 1, Len(s) - 1))
         + (Pos(SubSeq(s, Len(s), Len(s)), DigitChars, 1) - 1)

\* the time part hh:mm or hh:mm:ss of an ISO string
TimeOK(s) ==
    /\ Len(s) \in {5, 8}
    /\ IsDigits(SubSeq(s, 1, 2)) /\ NumOf(SubSeq(s, 1, 2)) < 24
    /\ SubSeq(s, 3, 3) = ":"
    /\ IsDigits(SubSeq(s, 4, 5)) /\ NumOf(SubSeq(s, 4, 5)) < 60
    /\ Len(s) = 8 =>
         /\ SubSeq(s, 6, 6) = ":"
         /\ IsDigits(SubSeq(s, 7, 8)) /\ NumOf(SubSeq(s, 7, 8)) < 60

\* datetime.fromisoformat(v).date(): YYYY-MM-DD, optionally followed by one
\* separator character and a time, which .date() drops.  (The forms with
\* fractions of a second or a UTC offset are not among the inputs drawn.)
fromisoformat_date(v) ==
    IF v.t # "str" THEN Raise("TypeError") ELSE
    LET s == v.s
        y == NumOf(SubSeq(s, 1, 4))
        m == NumOf(SubSeq(s, 6, 7))
        d == NumOf(SubSeq(s, 9, 10))
    IN  IF /\ Len(s) >= 10
           /\ IsDigits(SubSeq(s, 1, 4)) /\ SubSeq(s, 5, 5) = "-"
           /\ IsDigits(SubSeq(s, 6, 7)) /\ SubSeq(s, 8, 8) = "-"
           /\ IsDigits(SubSeq(s, 9, 10))
           /\ y >= 1 /\ m \in 1..12 /\ d >= 1 /\ d <= DaysInMonth(y, m)
           /\ Len(s) > 10 => (Len(s) > 11 /\ TimeOK(SubSeq(s, 12, Len(s))))
        THEN MkDate(y, m, d)
        ELSE Raise("ValueError")

Pad(n, w) ==
    LET RECURSIVE Digs(_)
        Digs(k) == IF k < 10 THEN SubSeq(DigitChars, k + 1, k + 1)
                   ELSE Digs(k \div 10) \o SubSeq(DigitChars, (k % 10) + 1, (k % 10) + 1)
        RECURSIVE Zeros(_)
        Zeros(k) == IF k <= 0 THEN "" ELSE "0" \o Zeros(k - 1)
    IN  Zeros(w - Len(Digs(n))) \o Digs(n)

\* str(date)
DateStr(dt) == Pad(dt.y, 4) \o "-" \o Pad(dt.m, 2) \o "-" \o Pad(dt.d, 2)

-----------------------------------------------------------------------------
(* Configuration: the process environment (.env) *)

\* Kyle and Gabriel have a mention id, Nikki's key is set but empty, nobody
\* else has one
Environ == [DISCORD_ID_KYLE |-> "111", DISCORD_ID_GABRIEL |-> "222", DISCORD_ID_NIKKI |-> ""]

\* os.getenv(key)
getenv(key) == IF key \in DOMAIN Environ THEN PyStr(Environ[key]) ELSE PyNone

\* Reminder.py get_discord_user_id(name)
get_discord_user_id(name) ==
    IF name.t # "str" THEN Raise("AttributeError")
    ELSE getenv("DISCORD_ID_" \o UpperUnderscore(name.s))

-----------------------------------------------------------------------------
(* Date ranges, computed from `today` when the module loads *)

tomorrow == AddDays(today, 1)
week_end == AddDays(today, 7)

\* status in ["To do", "In progress"]
StatusActionable(status) == status.t = "str" /\ status.s \in {"To do", "In progress"}

\* props.get("Due Date", {}).get("date"), then fromisoformat(date_prop["start"])
\* when both are truthy: a date, None when there is no date, or the exception
DueDateOf(p) ==
    LET due_prop == Get(p, "Due Date", EmptyDict) IN
    IF IsExc(due_prop) THEN due_prop ELSE
    LET date_prop == Get(due_prop, "date", PyNone) IN
    IF IsExc(date_prop) THEN date_prop ELSE
    IF ~Truthy(date_prop) THEN PyNone ELSE
    LET start == Get(date_prop, "start", PyNone) IN
    IF IsExc(start) THEN start ELSE
    IF ~Truthy(start) THEN PyNone ELSE
    fromisoformat_date(start)

\* the exceptions the record loops catch per record
CaughtPerRecord == {"KeyError", "IndexError", "ValueError"}

\* what an exception raised inside a loop body does: the inner except clause
\* takes it ("caught": continue) or it leaves the loop for the outer one
Thrown(exc) ==
    IF exc.e \in CaughtPerRecord
    THEN [out |-> "caught", e |-> exc.e]
    ELSE [out |-> "abort", e |-> exc.e]

Skip == [out |-> "skip"]

-----------------------------------------------------------------------------
(* discord_bot.py get_user_tasks *)

\* [person.lower() for person in assigned_people]
RECURSIVE LowerAll(_)
LowerAll(l) ==
    IF Len(l) = 0 THEN PyList(<<>>) ELSE
    IF l[1].t # "str" THEN Raise("AttributeError") ELSE
    LET rest == LowerAll(Tail(l)) IN
    IF IsExc(rest) THEN rest ELSE PyList(<<Lower(l[1].s)>> \o rest.l)

\* a classification whose week window leaves out its last day (today + 7);
\* C1_BucketsByRule tells it from Categorize
CategorizeShortWeek(due_date, status) ==
    IF DateLT(due_date, today) /\ StatusActionable(status) THEN "overdue"
    ELSE IF due_date = tomorrow THEN "due_tomorrow"
    ELSE IF DateLE(today, due_date) /\ DateLT(due_date, week_end) THEN "due_this_week"
    ELSE "none"

\* the if / elif / elif that picks the list a task is appended to
Categorize(due_date, status) ==
    IF DateLT(due_date, today) /\ StatusActionable(status) THEN "overdue"
    ELSE IF due_date = tomorrow THEN "due_tomorrow"
    ELSE IF DateLE(today, due_date) /\ DateLE(due_date, week_end) THEN "due_this_week"
    ELSE "none"

\* the body of `for page in results` for one page
DigestRecord(page, person_name) ==
    LET p == GetItem(page, "properties") IN
    IF IsExc(p) THEN Thrown(p) ELSE
    LET name == extract_task_name(p) IN
    IF IsExc(name) THEN Thrown(name) ELSE
    LET assigned_people == extract_assigned_people(p) IN
    IF IsExc(assigned_people) THEN Thrown(assigned_people) ELSE
    LET status == extract_task_status(p) IN
    IF IsExc(status) THEN Thrown(status) ELSE
    LET lowered == LowerAll(assigned_people.l) IN
    IF IsExc(lowered) THEN Thrown(lowered) ELSE
    IF \A k \in 1..Len(lowered.l) : lowered.l[k] # Lower(person_name) THEN Skip ELSE
    LET due_date == DueDateOf(p) IN
    IF IsExc(due_date) THEN Thrown(due_date) ELSE
    IF due_date = PyNone THEN Skip ELSE
    LET bucket == Categorize(due_date, status) IN
    IF bucket = "none" THEN Skip ELSE
    [out |-> "add", bucket |-> bucket,
     info |-> [name |-> name.s, due_date |-> due_date, status |-> status,
               assigned_people |-> assigned_people.l]]

NoTasks == [t |-> "tasks", overdue |-> <<>>, due_this_week |-> <<>>, due_tomorrow |-> <<>>]

AppendTo(user_tasks, bucket, info) ==
    [user_tasks EXCEPT ![bucket] = Append(@, info)]

\* the record loop: the digest, or None once an exception leaves the loop
RECURSIVE UserTasksLoop(_, _, _, _)
UserTasksLoop(results, k, user_tasks, person_name) ==
    IF k > Len(results) THEN user_tasks ELSE
    LET r == DigestRecord(results[k], person_name) IN
    IF r.out = "abort" THEN PyNone
    ELSE IF r.out = "add"
         THEN UserTasksLoop(results, k + 1, AppendTo(user_tasks, r.bucket, r.info), person_name)
         ELSE UserTasksLoop(results, k + 1, user_tasks, person_name)

\* get_user_tasks(person_name); response is the result list of the query, or
\* the RequestException the query raised
get_user_tasks(person_name, response) ==
    IF IsExc(response) THEN PyNone
    ELSE UserTasksLoop(response.l, 1, NoTasks, person_name)

-----------------------------------------------------------------------------
(* Reminder.py send_discord_alert, check_due_tasks, check_overdue_tasks *)

\* the mention tags of the assignees that have a configured id
RECURSIVE Mentions(_)
Mentions(l) ==
    IF Len(l) = 0 THEN PyList(<<>>) ELSE
    LET discord_id == get_discord_user_id(l[1]) IN
    IF IsExc(discord_id) THEN discord_id ELSE
    LET rest == Mentions(Tail(l)) IN
    IF IsExc(rest) THEN rest ELSE
    IF Truthy(discord_id) THEN PyList(<<"<@" \o discord_id.s \o ">">> \o rest.l) ELSE rest

\* assigned_text: the " | Assigned to: **...**" string the function builds.
\* ', '.join raises on a name that is not a string.
AssignedText(l) ==
    IF Len(l) = 1 THEN PyStr(" | Assigned to: **" \o (IF l[1].t = "str" THEN l[1].s ELSE "?") \o "**")
    ELSE IF \E k \in 1..Len(l) : l[k].t # "str" THEN Raise("TypeError")
    ELSE PyStr(" | Assigned to: **" \o Join(", ", [k \in 1..Len(l) |-> l[k].s]) \o "**")

\* the "content" of the message send_discord_alert posts, or the exception
\* building it raises.  assigned_text is built and then not used in either
\* format string.
AlertContent(task_name, due_date, assigned_people, is_overdue) ==
    LET assigned_text == IF Len(assigned_people) > 0 THEN AssignedText(assigned_people) ELSE PyStr("")
        discord_mentions == IF Len(assigned_people) > 0 THEN Mentions(assigned_people) ELSE PyList(<<>>)
    IN  IF IsExc(assigned_text) THEN assigned_text ELSE
        IF IsExc(discord_mentions) THEN discord_mentions ELSE
        LET discord_tags == IF Len(discord_mentions.l) > 0
                            THEN " " \o Join(" ", discord_mentions.l) ELSE ""
        IN  IF is_overdue
            THEN PyStr("# **OVERDUE!** **" \o task_name \o "** was due on **"
                       \o DateStr(due_date) \o "**" \o discord_tags)
            ELSE PyStr("# Reminder! **" \o task_name \o "** is due on **"
                       \o DateStr(due_date) \o "** ~ that's tomorrow! " \o discord_tags)

\* what an alert call does: the message to POST, or the exception that leaves
\* send_discord_alert (and the record loop) before any POST
Alert(name, due_date, assigned_people, is_overdue) ==
    LET content == AlertContent(name.s, due_date, assigned_people.l, is_overdue) IN
    IF IsExc(content) THEN Thrown(content)
    ELSE [out |-> "alert", content |-> content.s, name |-> name.s,
          assigned_people |-> assigned_people.l, is_overdue |-> is_overdue]

\* the body of check_due_tasks' loop for one page
DueRecord(page) ==
    LET p == GetItem(page, "properties") IN
    IF IsExc(p) THEN Thrown(p) ELSE
    LET name == extract_task_name(p) IN
    IF IsExc(name) THEN Thrown(name) ELSE
    LET assigned_people == extract_assigned_people(p) IN
    IF IsExc(assigned_people) THEN Thrown(assigned_people) ELSE
    LET due_date == DueDateOf(p) IN
    IF IsExc(due_date) THEN Thrown(due_date) ELSE
    IF due_date = PyNone THEN Skip ELSE
    IF due_date = tomorrow THEN Alert(name, due_date, assigned_people, FALSE) ELSE Skip

\* the body of check_overdue_tasks' loop for one page
OverdueRecord(page) ==
    LET p == GetItem(page, "properties") IN
    IF IsExc(p) THEN Thrown(p) ELSE
    LET name == extract_task_name(p) IN
    IF IsExc(name) THEN Thrown(name) ELSE
    LET assigned_people == extract_assigned_people(p) IN
    IF IsExc(assigned_people) THEN Thrown(assigned_people) ELSE
    LET status == extract_task_status(p) IN
    IF IsExc(status) THEN Thrown(status) ELSE
    LET due_date == DueDateOf(p) IN
    IF IsExc(due_date) THEN Thrown(due_date) ELSE
    IF due_date = PyNone THEN Skip ELSE
    IF DateLT(due_date, today) /\ Truthy(status) /\ StatusActionable(status)
    THEN Alert(name, due_date, assigned_people, TRUE) ELSE Skip

-----------------------------------------------------------------------------
(* Inputs: the task records the query may return *)

Missing == [t |-> "missing"]

Field(k, v) == IF v = Missing THEN <<>> ELSE (k :> v)

\* a property mapping with the given Task, Assign, Status and Due Date
\* properties (Missing: the key is not there)
MkProps(task, assign, status, due) ==
    PyDict(Field("Task", task) @@ Field("Assign", assign)
           @@ Field("Status", status) @@ Field("Due Date", due))

MkPage(task, assign, status, due) ==
    PyDict([id |-> PyStr("page"), properties |-> MkProps(task, assign, status, due)])

Named(n) == PyDict([name |-> PyStr(n)])
NamedAll(names) == PyList([k \in 1..Len(names) |-> Named(names[k])])

Title(s) == PyDict([title |-> PyList(<<PyDict([text |-> PyDict([content |-> PyStr(s)])])>>)])
People(names) == PyDict([people |-> NamedAll(names)])
MultiSelect(names) == PyDict([multi_select |-> NamedAll(names)])
StatusObj(n) == PyDict([status |-> Named(n)])
SelectObj(n) == PyDict([select |-> Named(n)])
DueStart(v) == PyDict([date |-> PyDict([start |-> v])])

\* the status shapes: dedicated status, single select, multi-select, none
StatusShapes ==
    { StatusObj("To do"), SelectObj("In progress"), MultiSelect(<<"Done", "To do">>),
      StatusObj("to do"), Missing }

DateStrings ==
    { "2023-12-30", "2023-12-31", "2024-01-01T09:30:00", "2024-01-06", "2024-01-07", "2024-01-08" }

Todays == { MkDate(2023, 12, 30), MkDate(2023, 12, 31) }

Persons == { "Kyle", "Gabriel" }

\* well-formed records: every status shape on every date, assigned to Kyle
ClassifyPages ==
    { MkPage(Title("Ship report"), MultiSelect(<<"Kyle">>), st, DueStart(PyStr(ds))) :
        st \in StatusShapes, ds \in DateStrings }

\* well-formed records with the assignee shapes
AssignShapes ==
    { Missing, People(<<"Kyle", "Gabriel">>), MultiSelect(<<"Melissa">>),
      MultiSelect(<<"Nikki", "kyle">>),
      PyDict([people |-> PyList(<<PyDict(<<>>), Named("Kyle")>>)]) }

AssignPages ==
    { MkPage(Title("  Plan party "), as, StatusObj("To do"), DueStart(PyStr(ds))) :
        as \in AssignShapes, ds \in {"2023-12-30", "2023-12-31"} }

GoodA == MkPage(Title("Ship report"), MultiSelect(<<"Kyle">>), StatusObj("To do"),
                DueStart(PyStr("2023-12-30")))
GoodB == MkPage(Title("File taxes"), MultiSelect(<<"Kyle">>), StatusObj("In progress"),
                DueStart(PyStr("2023-12-31")))

\* a page without "properties": KeyError
NoPropsPage == PyDict([id |-> PyStr("page")])
\* a malformed date: ValueError
BadDatePage == MkPage(Title("Ship report"), MultiSelect(<<"Kyle">>), StatusObj("To do"),
                      DueStart(PyStr("next week")))
\* "Task": null: AttributeError
NullTaskPage == MkPage(PyNone, MultiSelect(<<"Kyle">>), StatusObj("To do"),
                       DueStart(PyStr("2023-12-30")))

MalformedPages ==
    { NoPropsPage, BadDatePage, NullTaskPage,
      \* the page itself is null: TypeError
      PyNone,
      \* "title" is a mapping: title[0] is a KeyError
      MkPage(PyDict([title |-> PyDict([plain |-> PyStr("x")])]), MultiSelect(<<"Kyle">>),
             StatusObj("To do"), DueStart(PyStr("2023-12-30"))),
      \* "status" is a string: AttributeError
      MkPage(Title("Ship report"), MultiSelect(<<"Kyle">>), PyDict([status |-> PyStr("To do")]),
             DueStart(PyStr("2023-12-31"))),
      \* "start" is a number: TypeError
      MkPage(Title("Ship report"), MultiSelect(<<"Kyle">>), StatusObj("To do"),
             DueStart(PyInt(20231230))),
      \* an assignee name that is a number
      MkPage(Title("Ship report"),
             PyDict([multi_select |-> PyList(<<PyDict([name |-> PyInt(7)]), Named("Kyle")>>)]),
             StatusObj("To do"), DueStart(PyStr("2023-12-31"))),
      \* an impossible calendar date: ValueError
      MkPage(Title("Ship report"), MultiSelect(<<"Kyle">>), StatusObj("To do"),
             DueStart(PyStr("2023-02-29"))) }

AllPages == ClassifyPages \cup AssignPages \cup MalformedPages
FaultPages == { GoodA, GoodB, NoPropsPage, BadDatePage, NullTaskPage }

\* bounds on the length of the result list
MaxAnyRecords == 1
MaxFaultRecords == 3

SeqsUpTo(S, n) == UNION { [1..k -> S] : k \in 0..n }

\* the result lists drawn: short lists of any record, longer lists of the
\* records that matter for what one record's failure does to the others
ResultLists == SeqsUpTo(AllPages, MaxAnyRecords) \cup SeqsUpTo(FaultPages, MaxFaultRecords)

-----------------------------------------------------------------------------
(* Spec: one run of Reminder.py (check_due_tasks(), then                   *)
(* check_overdue_tasks()), or one call of the bot's get_user_tasks,        *)
(* against a task source holding db                                        *)

Unset == [t |-> "unset"]
Idle == [t |-> "idle"]

vars == <<botVars, props, extracted, today, db, entry, pc, idx, queries, processed, posts, tasks, person, summary>>

Init ==
    /\ today \in Todays
    /\ db \in ResultLists
    /\ entry \in {"reminder", "bot"}
    /\ pc = IF entry = "reminder" THEN "due_query" ELSE "bot_call"
    /\ idx = 0
    /\ queries = <<>>
    /\ processed = <<>>
    /\ posts = <<>>
    /\ tasks = Unset
    /\ person = ""
    /\ props = Idle
    /\ extracted = Idle
    /\ summary = Idle
    /\ clock = Idle /\ inbox = Idle /\ hs = Idle /\ blocked = Idle /\ outbox = Idle

\* a run that enters the record loop whether or not the query succeeded;
\* C8_OneQueryPerFunction tells it from AfterQuery
AfterQueryAlwaysLoops(ok, loopPc, endPc) == loopPc

\* where a function goes after requests.post(url, headers=HEADERS) and
\* raise_for_status(): into its record loop, or (RequestException) to its end
AfterQuery(ok, loopPc, endPc) == IF ok THEN loopPc ELSE endPc

\* the query of check_due_tasks / check_overdue_tasks: one POST, which the
\* task source answers (ok) or which raises RequestException
RunQuery(fn, queryPc, loopPc, endPc) ==
    /\ pc = queryPc
    /\ \E ok \in BOOLEAN :
         /\ queries' = Append(queries, [fn |-> fn, ok |-> ok])
         /\ pc' = AfterQuery(ok, loopPc, endPc)
    /\ idx' = 1
    /\ UNCHANGED <<botVars, props, extracted, today, db, entry, processed, posts, tasks, person, summary>>

\* where the loop goes after a record: on to the next one, or (an exception
\* the inner except clause does not name) out of the loop to the outer
\* `except Exception`
AfterRecord(out, loopPc, endPc) == IF out = "abort" THEN endPc ELSE loopPc

\* one pass of the loop body; r is what the body does with db[idx].  An alert
\* is one webhook POST, which succeeds or raises RequestException inside
\* send_discord_alert, where it is caught.
RunRecord(fn, r, loopPc, endPc) ==
    /\ pc = loopPc
    /\ idx <= Len(db)
    /\ processed' = Append(processed, [fn |-> fn, rec |-> idx, out |-> r.out])
    /\ IF r.out = "alert"
       THEN \E ok \in BOOLEAN :
              posts' = Append(posts, [fn |-> fn, rec |-> idx, ok |-> ok,
                                      content |-> r.content, name |-> r.name,
                                      assigned_people |-> r.assigned_people,
                                      is_overdue |-> r.is_overdue])
       ELSE posts' = posts
    /\ pc' = AfterRecord(r.out, loopPc, endPc)
    /\ idx' = idx + 1
    /\ UNCHANGED <<botVars, props, extracted, today, db, entry, queries, tasks, person, summary>>

\* the loop has run through the result list
RunEnd(loopPc, endPc) ==
    /\ pc = loopPc
    /\ idx > Len(db)
    /\ pc' = endPc
    /\ UNCHANGED <<botVars, props, extracted, today, db, entry, idx, queries, processed, posts, tasks, person, summary>>

CheckDueQuery == RunQuery("check_due_tasks", "due_query", "due_loop", "overdue_query")
CheckDueRecord ==
    /\ pc = "due_loop" /\ idx <= Len(db)
    /\ RunRecord("check_due_tasks", DueRecord(db[idx]), "due_loop", "overdue_query")
CheckDueEnd == RunEnd("due_loop", "overdue_query")

CheckOverdueQuery == RunQuery("check_overdue_tasks", "overdue_query", "overdue_loop", "done")
CheckOverdueRecord ==
    /\ pc = "overdue_loop" /\ idx <= Len(db)
    /\ RunRecord("check_overdue_tasks", OverdueRecord(db[idx]), "overdue_loop", "done")
CheckOverdueEnd == RunEnd("overdue_loop", "done")

\* the bot calls get_user_tasks(notion_name): one POST, then the record loop
GetUserTasks ==
    /\ pc = "bot_call"
    /\ \E pn \in Persons, ok \in BOOLEAN :
         /\ person' = pn
         /\ queries' = Append(queries, [fn |-> "get_user_tasks", ok |-> ok])
         /\ tasks' = get_user_tasks(pn, IF ok THEN PyList(db) ELSE Raise("RequestException"))
    /\ pc' = "done"
    /\ UNCHANGED <<botVars, props, extracted, today, db, entry, idx, processed, posts, summary>>

Next ==
    \/ CheckDueQuery
    \/ CheckDueRecord
    \/ CheckDueEnd
    \/ CheckOverdueQuery
    \/ CheckOverdueRecord
    \/ CheckOverdueEnd
    \/ GetUserTasks

Spec == Init /\ [][Next]_vars

-----------------------------------------------------------------------------
(* Properties of Spec *)

\* date.toordinal(): the day number of a date, for stating the rules in days
DaysBeforeYear(y) == (y - 1) * 365 + ((y - 1) \div 4) - ((y - 1) \div 100) + ((y - 1) \div 400)

RECURSIVE DaysBeforeMonth(_, _)
DaysBeforeMonth(y, m) == IF m = 1 THEN 0 ELSE DaysBeforeMonth(y, m - 1) + DaysInMonth(y, m - 1)

Ord(dt) == DaysBeforeYear(dt.y) + DaysBeforeMonth(dt.y, dt.m) + dt.d

Buckets == {"overdue", "due_tomorrow", "due_this_week"}

PropsOf(page) == page.d["properties"]

\* a record every field of which extracts (names that are strings, a status
\* or none, a due date that parses): the records the bucket rule is about
WellFormed(page) ==
    /\ page.t = "dict"
    /\ "properties" \in DOMAIN page.d
    /\ ~IsExc(extract_task_name(PropsOf(page)))
    /\ ~IsExc(extract_assigned_people(PropsOf(page)))
    /\ \A k \in 1..Len(extract_assigned_people(PropsOf(page)).l) :
          extract_assigned_people(PropsOf(page)).l[k].t = "str"
    /\ ~IsExc(extract_task_status(PropsOf(page)))
    /\ DueDateOf(PropsOf(page)).t = "date"

\* the bucket rule of the claim, in day numbers relative to the date tdy
RuleBucketAt(page, tdy) ==
    LET due == Ord(DueDateOf(PropsOf(page)))
        st == extract_task_status(PropsOf(page))
        t0 == Ord(tdy)
    IN  IF due < t0 /\ st.t = "str" /\ (st.s = "To do" \/ st.s = "In progress") THEN "overdue"
        ELSE IF due = t0 + 1 THEN "due_tomorrow"
        ELSE IF t0 <= due /\ due <= t0 + 7 THEN "due_this_week"
        ELSE "none"

RuleBucket(page) == RuleBucketAt(page, today)

AssignedTo(page, pn) ==
    \E k \in 1..Len(extract_assigned_people(PropsOf(page)).l) :
        Lower(extract_assigned_people(PropsOf(page)).l[k].s) = Lower(pn)

InfoOf(page) ==
    [name |-> extract_task_name(PropsOf(page)).s,
     due_date |-> DueDateOf(PropsOf(page)),
     status |-> extract_task_status(PropsOf(page)),
     assigned_people |-> extract_assigned_people(PropsOf(page)).l]

\* the well-formed records of results[k..] assigned to pn that the rule, taken
\* at the date tdy, puts in bucket, in source order
RECURSIVE ExpectedList(_, _, _, _, _)
ExpectedList(results, k, bucket, pn, tdy) ==
    IF k > Len(results) THEN <<>>
    ELSE IF /\ WellFormed(results[k]) /\ AssignedTo(results[k], pn)
            /\ RuleBucketAt(results[k], tdy) = bucket
         THEN <<InfoOf(results[k])>> \o ExpectedList(results, k + 1, bucket, pn, tdy)
         ELSE ExpectedList(results, k + 1, bucket, pn, tdy)

BucketOfFn(fn) == IF fn = "check_overdue_tasks" THEN "overdue" ELSE "due_tomorrow"

\* C1: every well-formed record with a due date gets the one bucket the rule
\* names (overdue iff due < today and status is exactly "To do" or
\* "In progress"; else due_tomorrow iff due = today+1; else due_this_week iff
\* today <= due <= today+7; else none).  The digest get_user_tasks returns
\* holds, in each of its three lists, exactly the person's records the rule
\* puts there, in source order; in the batch run a record whose loop body ran
\* got an overdue alert iff the rule says overdue and a due-tomorrow alert iff
\* the rule says due_tomorrow, and no record got both.
C1_BucketsByRule ==
    /\ tasks.t = "tasks" =>
         \A b \in Buckets : tasks[b] = ExpectedList(db, 1, b, person, today)
    /\ \A k \in 1..Len(processed) :
         WellFormed(db[processed[k].rec]) =>
            ((processed[k].out = "alert")
               <=> (RuleBucket(db[processed[k].rec]) = BucketOfFn(processed[k].fn)))
    /\ \A k \in 1..Len(posts) :
         /\ posts[k].is_overdue <=> (posts[k].fn = "check_overdue_tasks")
         /\ WellFormed(db[posts[k].rec]) =>
              RuleBucket(db[posts[k].rec]) = BucketOfFn(posts[k].fn)
    /\ \A j, k \in 1..Len(posts) :
         posts[j].rec = posts[k].rec => posts[j].fn = posts[k].fn

\* C1 witness: a digest whose due_this_week list holds a record due exactly
\* today+7
C1_Witness ==
    /\ tasks.t = "tasks"
    /\ \E k \in 1..Len(tasks.due_this_week) :
          Ord(tasks.due_this_week[k].due_date) = Ord(today) + 7

LoopOver(fn) ==
    IF fn = "check_due_tasks" THEN pc \in {"overdue_query", "overdue_loop", "done"}
    ELSE pc = "done"

FailingPage(page) ==
    \/ DueRecord(page).out \in {"caught", "abort"}
    \/ OverdueRecord(page).out \in {"caught", "abort"}

\* C2: a record whose processing fails (missing key, malformed date, type
\* mismatch) is skipped alone: the digest of an answered query is still
\* returned and holds every other record in its bucket, and an answered batch
\* loop runs its body for every record of the result list.
C2_FailingRecordSkippedAlone ==
    /\ (pc = "done" /\ entry = "bot" /\ queries[1].ok) =>
          /\ tasks.t = "tasks"
          /\ \A b \in Buckets : tasks[b] = ExpectedList(db, 1, b, person, today)
    /\ \A q \in 1..Len(queries) :
          (entry = "reminder" /\ queries[q].ok /\ LoopOver(queries[q].fn)) =>
             \A k \in 1..Len(db) :
                \E e \in 1..Len(processed) :
                   processed[e].fn = queries[q].fn /\ processed[e].rec = k

Configured(name) == Truthy(getenv("DISCORD_ID_" \o UpperUnderscore(name)))

TagOf(name) == "<@" \o getenv("DISCORD_ID_" \o UpperUnderscore(name)).s \o ">"

\* the number of places where sub occurs in s
CountOf(s, sub) ==
    Cardinality({k \in 1..(Len(s) - Len(sub) + 1) : SubSeq(s, k, k + Len(sub) - 1) = sub})

\* the tags of an alert are those of the assignees with a configured mention
\* id, one each, and an alert without assignees has no person list and no tag
TagsExactlyConfigured(post) ==
    LET a == post.assigned_people
        c == post.content
    IN  /\ \A j \in 1..Len(a) : (a[j].t = "str" /\ Configured(a[j].s)) => Contains(c, TagOf(a[j].s))
        /\ CountOf(c, "<@") = Cardinality({j \in 1..Len(a) : a[j].t = "str" /\ Configured(a[j].s)})
        /\ Len(a) = 0 => ~Contains(c, "Assigned to")

\* C4: an alert for a task with assignees names every assignee in its text and
\* tags exactly the assignees with a configured mention id; an alert for a
\* task without assignees carries no person list and no tag.
C4_AlertNamesEveryAssignee ==
    \A k \in 1..Len(posts) :
       /\ \A j \in 1..Len(posts[k].assigned_people) :
             posts[k].assigned_people[j].t = "str" =>
                Contains(posts[k].content, posts[k].assigned_people[j].s)
       /\ TagsExactlyConfigured(posts[k])

\* the part of C4 the code does keep: the tags
C4_TagsHold == \A k \in 1..Len(posts) : TagsExactlyConfigured(posts[k])

\* C8 as stated: one batch run issues one query, and when a query of the run
\* fails no record is classified and no alert is sent in that run.
C8_OneQueryPerRun ==
    entry = "reminder" =>
       /\ Len(queries) <= 1
       /\ (\E q \in 1..Len(queries) : ~queries[q].ok) => (processed = <<>> /\ posts = <<>>)

\* C8 amended: a batch run issues two queries, one by check_due_tasks and then
\* one by check_overdue_tasks; a function whose query fails classifies no
\* record and sends no alert, and the other function still runs.
C8_OneQueryPerFunction ==
    entry = "reminder" =>
       /\ Len(queries) <= 2
       /\ Len(queries) >= 1 => queries[1].fn = "check_due_tasks"
       /\ Len(queries) = 2 => queries[2].fn = "check_overdue_tasks"
       /\ pc = "done" => Len(queries) = 2
       /\ \A q \in 1..Len(queries) :
            ~queries[q].ok =>
               /\ \A k \in 1..Len(processed) : processed[k].fn # queries[q].fn
               /\ \A k \in 1..Len(posts) : posts[k].fn # queries[q].fn

\* C8 witness: the run is over, its first query failed, and the second
\* function still sent an alert
C8_Witness ==
    /\ entry = "reminder" /\ pc = "done"
    /\ Len(queries) = 2 /\ ~queries[1].ok /\ queries[2].ok
    /\ Len(posts) > 0

-----------------------------------------------------------------------------
(* SpecExtract: the three extractors applied to one property mapping *)

TaskShapes ==
    { Missing, PyNone, EmptyDict,
      Title("Ship report"), Title("   "), Title("  Plan party "),
      PyDict([title |-> PyList(<<>>)]),
      PyDict([title |-> PyStr("Ship report")]),
      PyDict([title |-> PyInt(3)]),
      PyDict([title |-> PyDict([plain |-> PyStr("x")])]),
      PyDict([title |-> PyList(<<PyNone>>)]),
      PyDict([title |-> PyList(<<PyDict([text |-> PyDict([content |-> PyInt(5)])])>>)]) }

AssignShapesX ==
    { Missing, PyNone, EmptyDict,
      People(<<"Kyle", "Gabriel">>), MultiSelect(<<"Kyle">>),
      PyDict([people |-> PyList(<<>>), multi_select |-> NamedAll(<<"Nikki">>)]),
      PyDict([people |-> PyList(<<PyDict(<<>>), Named("Kyle")>>)]),
      PyDict([people |-> PyStr("Kyle")]),
      PyDict([people |-> PyList(<<PyStr("Kyle")>>)]) }

StatusShapesX ==
    { Missing, PyNone, EmptyDict,
      StatusObj("To do"), SelectObj("In progress"), MultiSelect(<<"Done", "To do">>),
      PyDict([status |-> PyDict([name |-> PyNone]), select |-> Named("In progress")]),
      PyDict([status |-> PyStr("Done")]),
      PyDict([multi_select |-> PyStr("Done")]),
      PyDict([multi_select |-> PyList(<<PyStr("Done")>>)]) }

ExtractInputs ==
    { MkProps(tk, as, st, Missing) : tk \in TaskShapes, as \in AssignShapesX, st \in StatusShapesX }

NotRun == [t |-> "notrun"]

InitExtract ==
    /\ props \in ExtractInputs
    /\ extracted = [name |-> NotRun, assigned_people |-> NotRun, status |-> NotRun]
    /\ today = Idle /\ db = Idle /\ entry = Idle /\ pc = Idle /\ idx = Idle
    /\ queries = Idle /\ processed = Idle /\ posts = Idle /\ tasks = Idle /\ person = Idle
    /\ summary = Idle
    /\ clock = Idle /\ inbox = Idle /\ hs = Idle /\ blocked = Idle /\ outbox = Idle

ExtractName ==
    /\ extracted.name = NotRun
    /\ extracted' = [extracted EXCEPT !.name = extract_task_name(props)]
    /\ UNCHANGED <<botVars, props, today, db, entry, pc, idx, queries, processed, posts, tasks, person, summary>>

ExtractAssigned ==
    /\ extracted.assigned_people = NotRun
    /\ extracted' = [extracted EXCEPT !.assigned_people = extract_assigned_people(props)]
    /\ UNCHANGED <<botVars, props, today, db, entry, pc, idx, queries, processed, posts, tasks, person, summary>>

ExtractStatus ==
    /\ extracted.status = NotRun
    /\ extracted' = [extracted EXCEPT !.status = extract_task_status(props)]
    /\ UNCHANGED <<botVars, props, today, db, entry, pc, idx, queries, processed, posts, tasks, person, summary>>

NextExtract == ExtractName \/ ExtractAssigned \/ ExtractStatus

SpecExtract == InitExtract /\ [][NextExtract]_vars

\* C3: the extractors are total: whatever the Task, Assign and Status
\* properties are (missing, null, of no expected shape, of a shape whose inner
\* value has the wrong type), each extractor returns a value (a name, a list
\* of names, a status or None) and never raises.
C3_ExtractorsNeverRaise ==
    /\ ~IsExc(extracted.name)
    /\ ~IsExc(extracted.assigned_people)
    /\ ~IsExc(extracted.status)

\* the part of C3 the code does keep: a property that is missing or an empty
\* mapping gives the default
C3_MissingGivesDefault ==
    /\ (extracted.name # NotRun /\ Get(props, "Task", EmptyDict) = EmptyDict)
          => extracted.name = UnnamedTask
    /\ (extracted.assigned_people # NotRun /\ Get(props, "Assign", EmptyDict) = EmptyDict)
          => extracted.assigned_people = PyList(<<>>)
    /\ (extracted.status # NotRun /\ Get(props, "Status", EmptyDict) = EmptyDict)
          => extracted.status = PyNone

-----------------------------------------------------------------------------
(* discord_bot.py format_task_summary *)

\* f"{v}" for a status value, a count
Fmt(v) ==
    CASE v.t = "none" -> "None"
      [] v.t = "str"  -> v.s
      [] v.t = "int"  -> Pad(v.n, 1)

\* a section limit of six; C5_OverdueAndWeekAtMostFive tells it from FirstFive
FirstSix(l) == SubSeq(l, 1, IF Len(l) < 6 THEN Len(l) ELSE 6)

\* tasks[...][:5]
FirstFive(l) == SubSeq(l, 1, IF Len(l) < 5 THEN Len(l) ELSE 5)

DatedLine(task) ==
    "- **" \o task.name \o "** (due " \o DateStr(task.due_date) \o ") - *" \o Fmt(task.status) \o "*"

PlainLine(task) == "- **" \o task.name \o "** - *" \o Fmt(task.status) \o "*"

OverduePart(l) ==
    IF Len(l) = 0 THEN <<>>
    ELSE <<"# **OVERDUE (" \o Pad(Len(l), 1) \o ")**">>
         \o [k \in 1..Len(FirstFive(l)) |-> DatedLine(FirstFive(l)[k])]
         \o (IF Len(l) > 5
             THEN <<"- ... and " \o Pad(Len(l) - 5, 1) \o " more overdue tasks">> ELSE <<>>)
         \o <<"">>

TomorrowPart(l) ==
    IF Len(l) = 0 THEN <<>>
    ELSE <<"# **DUE TOMORROW (" \o Pad(Len(l), 1) \o ")**">>
         \o [k \in 1..Len(l) |-> PlainLine(l[k])]
         \o <<"">>

WeekPart(l) ==
    IF Len(l) = 0 THEN <<>>
    ELSE <<"# **DUE THIS WEEK (" \o Pad(Len(l), 1) \o ")**">>
         \o [k \in 1..Len(FirstFive(l)) |-> DatedLine(FirstFive(l)[k])]
         \o (IF Len(l) > 5
             THEN <<"- ... and " \o Pad(Len(l) - 5, 1) \o " more tasks this week">> ELSE <<>>)

\* message_parts, the lines format_task_summary joins (the notices are one
\* part each)
message_parts(user_mention, t) ==
    IF t = PyNone THEN <<"# Could not retrieve tasks for " \o user_mention>>
    ELSE IF Len(t.overdue) = 0 /\ Len(t.due_tomorrow) = 0 /\ Len(t.due_this_week) = 0
    THEN <<"# " \o user_mention \o " has no upcoming or overdue tasks!">>
    ELSE <<"# **Task Summary for " \o user_mention \o "**\n">>
         \o OverduePart(t.overdue) \o TomorrowPart(t.due_tomorrow) \o WeekPart(t.due_this_week)

\* sep.join for long lists: the halves joined, so the recursion stays shallow
RECURSIVE JoinLines(_)
JoinLines(l) ==
    IF Len(l) = 0 THEN ""
    ELSE IF Len(l) = 1 THEN l[1]
    ELSE JoinLines(SubSeq(l, 1, Len(l) \div 2)) \o "\n"
         \o JoinLines(SubSeq(l, (Len(l) \div 2) + 1, Len(l)))

format_task_summary(user_mention, t) == JoinLines(message_parts(user_mention, t))

-----------------------------------------------------------------------------
(* SpecRender: format_task_summary applied to one digest *)

\* the largest bucket drawn
MaxBucketTasks == 7

\* n tasks named after their bucket, in source order
MkTasks(prefix, n) ==
    [k \in 1..n |-> [name |-> prefix \o Pad(k, 1),
                     due_date |-> MkDate(2024, 1, k),
                     status |-> IF k % 3 = 0 THEN PyNone ELSE PyStr("To do"),
                     assigned_people |-> <<PyStr("Kyle")>>]]

Digests ==
    { [t |-> "tasks", overdue |-> MkTasks("late ", no),
       due_tomorrow |-> MkTasks("soon ", nt), due_this_week |-> MkTasks("week ", nw)] :
         no \in 0..MaxBucketTasks, nt \in 0..MaxBucketTasks, nw \in 0..MaxBucketTasks }
    \cup { PyNone }

InitRender ==
    /\ tasks \in Digests
    /\ person \in {"<@111>"}
    /\ summary = NotRun
    /\ props = Idle /\ extracted = Idle
    /\ today = Idle /\ db = Idle /\ entry = Idle /\ pc = Idle /\ idx = Idle
    /\ queries = Idle /\ processed = Idle /\ posts = Idle
    /\ clock = Idle /\ inbox = Idle /\ hs = Idle /\ blocked = Idle /\ outbox = Idle

Render ==
    /\ summary = NotRun
    /\ summary' = [t |-> "summary", parts |-> message_parts(person, tasks),
                   text |-> format_task_summary(person, tasks)]
    /\ UNCHANGED <<botVars, props, extracted, today, db, entry, pc, idx, queries, processed, posts, tasks, person>>

NextRender == Render

SpecRender == InitRender /\ [][NextRender]_vars

StartsWith(s, pre) == Len(s) >= Len(pre) /\ SubSeq(s, 1, Len(pre)) = pre

HeaderOf(b, n) ==
    CASE b = "overdue" -> "# **OVERDUE (" \o Pad(n, 1) \o ")**"
      [] b = "due_tomorrow" -> "# **DUE TOMORROW (" \o Pad(n, 1) \o ")**"
      [] b = "due_this_week" -> "# **DUE THIS WEEK (" \o Pad(n, 1) \o ")**"

IsHeader(line) ==
    StartsWith(line, "# **OVERDUE (") \/ StartsWith(line, "# **DUE TOMORROW (")
    \/ StartsWith(line, "# **DUE THIS WEEK (")

\* the indices of the parts that are the header of bucket b with count n
HeaderAt(parts, b, n) == {i \in 1..Len(parts) : parts[i] = HeaderOf(b, n)}

\* the indices of the lines of the section whose header is at h: up to the
\* next header or the end
SectionOf(parts, h) ==
    {i \in (h + 1)..Len(parts) : \A j \in (h + 1)..i : ~IsHeader(parts[j])}

IsTrailer(line) == StartsWith(line, "- ... and ")
IsTaskLine(line) == StartsWith(line, "- **")

\* the section of bucket b is there iff the bucket is not empty, once, with
\* the bucket's full count in its header
SectionPresent(parts, t, b) ==
    /\ Cardinality(HeaderAt(parts, b, Len(t[b]))) = (IF Len(t[b]) > 0 THEN 1 ELSE 0)
    /\ \A i \in 1..Len(parts) :
          StartsWith(parts[i], SubSeq(HeaderOf(b, 0), 1, Len(HeaderOf(b, 0)) - 4))
             => parts[i] = HeaderOf(b, Len(t[b]))

\* the section of bucket b lists the first `shown` tasks of the bucket, in
\* source order, one line each
SectionLists(parts, t, b, shown) ==
    \A h \in HeaderAt(parts, b, Len(t[b])) :
       /\ Cardinality({i \in SectionOf(parts, h) : IsTaskLine(parts[i])}) = shown
       /\ \A k \in 1..shown :
             /\ h + k \in SectionOf(parts, h)
             /\ StartsWith(parts[h + k], "- **" \o t[b][k].name \o "**")

\* the section of bucket b has `count` trailer lines, each stating `rest`
SectionTrailers(parts, t, b, count, rest) ==
    \A h \in HeaderAt(parts, b, Len(t[b])) :
       /\ Cardinality({i \in SectionOf(parts, h) : IsTrailer(parts[i])}) = count
       /\ \A i \in SectionOf(parts, h) :
             IsTrailer(parts[i]) => StartsWith(parts[i], "- ... and " \o Pad(rest, 1) \o " more")

SectionsInOrder(parts) ==
    \A i, j \in 1..Len(parts) :
       /\ (StartsWith(parts[i], "# **OVERDUE (") /\ StartsWith(parts[j], "# **DUE T")) => i < j
       /\ (StartsWith(parts[i], "# **DUE TOMORROW (") /\ StartsWith(parts[j], "# **DUE THIS WEEK (")) => i < j

Min(a, b) == IF a < b THEN a ELSE b

\* C5 as stated: each of the three sections is emitted only when its bucket is
\* non-empty, in the fixed order, with the full count in its header, lists at
\* most 5 task lines in source order, and a bucket of n > 5 tasks gets the
\* first 5 and exactly one trailer line stating n - 5.
C5_EverySectionAtMostFive ==
    (summary # NotRun /\ tasks # PyNone) =>
       /\ SectionsInOrder(summary.parts)
       /\ \A b \in Buckets :
            /\ SectionPresent(summary.parts, tasks, b)
            /\ SectionLists(summary.parts, tasks, b, Min(Len(tasks[b]), 5))
            /\ SectionTrailers(summary.parts, tasks, b,
                               IF Len(tasks[b]) > 5 THEN 1 ELSE 0, Len(tasks[b]) - 5)

\* C5 amended: the sections are emitted only when their bucket is non-empty,
\* in the fixed order, with the full count in the header; the overdue and the
\* due-this-week section list the first 5 tasks in source order and, for
\* n > 5 tasks, exactly one trailer line stating n - 5; the due-tomorrow
\* section lists every task of its bucket, in source order, and no trailer.
C5_OverdueAndWeekAtMostFive ==
    (summary # NotRun /\ tasks # PyNone) =>
       /\ SectionsInOrder(summary.parts)
       /\ \A b \in Buckets : SectionPresent(summary.parts, tasks, b)
       /\ \A b \in {"overdue", "due_this_week"} :
            /\ SectionLists(summary.parts, tasks, b, Min(Len(tasks[b]), 5))
            /\ SectionTrailers(summary.parts, tasks, b,
                               IF Len(tasks[b]) > 5 THEN 1 ELSE 0, Len(tasks[b]) - 5)
       /\ SectionLists(summary.parts, tasks, "due_tomorrow", Len(tasks.due_tomorrow))
       /\ SectionTrailers(summary.parts, tasks, "due_tomorrow", 0, 0)
       /\ summary.text = JoinLines(summary.parts)

\* C5 witness: a rendered digest of 7 overdue tasks and more than 5 due
\* tomorrow
C5_Witness ==
    /\ summary # NotRun /\ tasks # PyNone
    /\ Len(tasks.overdue) = 7 /\ Len(tasks.due_tomorrow) > 5
    /\ \E i \in 1..Len(summary.parts) : summary.parts[i] = "- ... and 2 more overdue tasks"

-----------------------------------------------------------------------------
(* discord_bot.py: the bot process.  on_message is a coroutine; discord.py  *)
(* starts one per message and the event loop runs one coroutine at a time, *)
(* switching only where the running one awaits.                            *)

\* DISCORD_TO_NOTION, built when the module loads from the DISCORD_ID_* keys
\* that are set and not empty
NotionNames == [DISCORD_ID_KYLE |-> "Kyle", DISCORD_ID_GABRIEL |-> "Gabriel",
                DISCORD_ID_MELISSA |-> "Melissa", DISCORD_ID_KENNY |-> "Kenny",
                DISCORD_ID_NIKKI |-> "Nikki"]

\* DISCORD_TO_NOTION.get(user_discord_id)
notion_name_of(user_discord_id) ==
    LET keys == {k \in DOMAIN NotionNames : Truthy(getenv(k)) /\ getenv(k).s = user_discord_id}
    IN  IF keys = {} THEN PyNone ELSE PyStr(NotionNames[CHOOSE k \in keys : TRUE])

\* Discord's message length limit, as on_message uses it
DISCORD_LIMIT == 2000

\* a chunking that drops the last character of every full chunk;
\* C6_ChunksRebuildText tells it from Chunks
ChunksLosingBoundary(response) ==
    [i \in 1..((Len(response) + DISCORD_LIMIT - 1) \div DISCORD_LIMIT) |->
        SubSeq(response, (i - 1) * DISCORD_LIMIT + 1, Min(i * DISCORD_LIMIT - 1, Len(response)))]

\* [response[i:i+2000] for i in range(0, len(response), 2000)]
Chunks(response) ==
    [i \in 1..((Len(response) + DISCORD_LIMIT - 1) \div DISCORD_LIMIT) |->
        SubSeq(response, (i - 1) * DISCORD_LIMIT + 1, Min(i * DISCORD_LIMIT, Len(response)))]

\* the texts on_message sends for a response, in order
SendList(response) ==
    IF Len(response) > DISCORD_LIMIT THEN Chunks(response) ELSE <<response>>

TaskCommands == {"!me", "!tasks", "!mytasks"}

BotUser == "900"

Mention(id) == "<@" \o id \o ">"

UnregisteredNotice == "# You're not registered in the system. Contact an admin to add your Discord ID."

-----------------------------------------------------------------------------
(* SpecBot *)

RECURSIVE Rep(_, _)
Rep(s, n) ==
    IF n = 0 THEN ""
    ELSE LET h == Rep(s, n \div 2) IN IF n % 2 = 0 THEN h \o h ELSE h \o h \o s

\* a task name of n characters
LongName(n) == SubSeq(Rep("abcdefg", (n \div 7) + 1), 1, n)

LongPage(n) == MkPage(Title(LongName(n)), MultiSelect(<<"Kyle">>), StatusObj("To do"),
                      DueStart(PyStr("2023-12-31")))

WeekPage == MkPage(Title("Write minutes"), People(<<"Kyle", "Gabriel">>), SelectObj("Done"),
                   DueStart(PyStr("2024-01-06")))

\* the task sources drawn: none, a few records, and records whose names make
\* the summary 2000, 2001, 4000 and 4001 characters long
BotResultLists ==
    { <<>>, <<GoodA, GoodB, WeekPage>>, <<GoodB, NullTaskPage>>,
      <<LongPage(1929)>>, <<LongPage(1930)>>,
      <<LongPage(1956), LongPage(1956)>>, <<LongPage(1956), LongPage(1957)>> }

\* the messages users send
Messages ==
    { [author |-> "111", content |-> "!me"], [author |-> "222", content |-> "!Tasks"],
      [author |-> "999", content |-> "!mytasks"], [author |-> "111", content |-> "hello"],
      [author |-> BotUser, content |-> "!me"] }

\* bounds: messages sent to the bot, days the process stays up
MaxMessages == 2
MaxDayAdvances == 1

otherVars == <<props, extracted, entry, pc, idx, queries, processed, posts, tasks, person, summary>>

InitBot ==
    /\ clock = MkDate(2023, 12, 30)
    /\ today = clock
    /\ db \in BotResultLists
    /\ inbox = <<>>
    /\ hs = <<>>
    /\ blocked = 0
    /\ outbox = <<>>
    /\ props = Idle /\ extracted = Idle /\ entry = Idle /\ pc = Idle /\ idx = Idle
    /\ queries = Idle /\ processed = Idle /\ posts = Idle /\ tasks = Idle /\ person = Idle
    /\ summary = Idle

\* midnight passes
DayAdvance ==
    /\ Ord(clock) - Ord(today) < MaxDayAdvances
    /\ clock' = NextDay(clock)
    /\ UNCHANGED <<today, db, inbox, hs, blocked, outbox, otherVars>>

\* a user posts a message in the channel
UserSends ==
    /\ Len(hs) + Len(inbox) < MaxMessages
    /\ \E m \in Messages : inbox' = Append(inbox, m)
    /\ UNCHANGED <<clock, today, db, hs, blocked, outbox, otherVars>>

\* where on_message first suspends, or ends, for message m
FirstStop(m) ==
    IF m.author = BotUser THEN "done"
    ELSE IF Lower(m.content) \notin TaskCommands THEN "done"
    ELSE IF ~Truthy(notion_name_of(m.author)) THEN "send_unregistered"
    ELSE "typing"

\* the event loop, when no coroutine holds the thread, starts on_message for
\* the next message and runs it to its first await
Dispatch ==
    /\ blocked = 0
    /\ Len(inbox) > 0
    /\ hs' = Append(hs, [author |-> Head(inbox).author, content |-> Head(inbox).content,
                         at |-> FirstStop(Head(inbox)),
                         notion_name |-> notion_name_of(Head(inbox).author),
                         tasks |-> Unset, response |-> "", chunks |-> <<>>, k |-> 0])
    /\ inbox' = Tail(inbox)
    /\ outbox' = Append(outbox, <<>>)
    /\ UNCHANGED <<clock, today, db, blocked, otherVars>>

\* `await message.channel.send("... not registered ...")` completes or raises;
\* on_message returns after it
UnregisteredSendDone(h) ==
    /\ blocked = 0
    /\ hs[h].at = "send_unregistered"
    /\ \E ok \in BOOLEAN :
         /\ outbox' = [outbox EXCEPT ![h] = Append(@, [kind |-> "notice", text |-> UnregisteredNotice, ok |-> ok])]
         /\ hs' = [hs EXCEPT ![h].at = IF ok THEN "done" ELSE "failed"]
    /\ UNCHANGED <<clock, today, db, inbox, blocked, otherVars>>

\* `async with message.channel.typing()` is entered (or raises); the coroutine
\* goes on, without an await, into get_user_tasks and its requests.post, a
\* blocking call: the coroutine keeps the thread while the request is out
TypingEntered(h) ==
    /\ blocked = 0
    /\ hs[h].at = "typing"
    /\ \E ok \in BOOLEAN :
         /\ hs' = [hs EXCEPT ![h].at = IF ok THEN "fetching" ELSE "failed"]
         /\ blocked' = IF ok THEN h ELSE 0
    /\ UNCHANGED <<clock, today, db, inbox, outbox, otherVars>>

\* requests.post returns (or raises RequestException); get_user_tasks runs its
\* record loop, format_task_summary builds the response, the send list is
\* computed and the first send is awaited
FetchReturns(h) ==
    /\ blocked = h
    /\ hs[h].at = "fetching"
    /\ \E ok \in BOOLEAN :
         LET t == get_user_tasks(hs[h].notion_name.s,
                                 IF ok THEN PyList(db) ELSE Raise("RequestException"))
             response == format_task_summary(Mention(hs[h].author), t)
         IN  hs' = [hs EXCEPT ![h].tasks = t, ![h].response = response,
                              ![h].chunks = SendList(response), ![h].k = 1,
                              ![h].at = "sending"]
    /\ blocked' = 0
    /\ UNCHANGED <<clock, today, db, inbox, outbox, otherVars>>

\* where on_message goes when the awaited send of chunk k ends: a send that
\* raises leaves on_message (no try surrounds it); otherwise the next chunk
\* is sent, or after the last one the handler finishes
AfterSend(ok, k, n) ==
    IF ~ok THEN "failed" ELSE IF k < n THEN "sending" ELSE "done"

\* `await message.channel.send(chunk)` completes or raises
SendDone(h) ==
    /\ blocked = 0
    /\ hs[h].at = "sending"
    /\ \E ok \in BOOLEAN :
         /\ outbox' = [outbox EXCEPT ![h] = Append(@, [kind |-> "digest",
                                      text |-> hs[h].chunks[hs[h].k], ok |-> ok])]
         /\ hs' = [hs EXCEPT ![h].at = AfterSend(ok, hs[h].k, Len(hs[h].chunks)),
                              ![h].k = IF ok /\ hs[h].k < Len(hs[h].chunks)
                                       THEN hs[h].k + 1 ELSE hs[h].k]
    /\ UNCHANGED <<clock, today, db, inbox, blocked, otherVars>>

NextBot ==
    \/ DayAdvance
    \/ UserSends
    \/ Dispatch
    \/ \E h \in 1..Len(hs) : UnregisteredSendDone(h)
    \/ \E h \in 1..Len(hs) : TypingEntered(h)
    \/ \E h \in 1..Len(hs) : FetchReturns(h)
    \/ \E h \in 1..Len(hs) : SendDone(h)

SpecBot == InitBot /\ [][NextBot]_vars

-----------------------------------------------------------------------------
(* Properties of SpecBot *)

\* the texts of the digest sends attempted for coroutine h among the first n
\* sends of its outbox, in send order
RECURSIVE DigestSends(_, _)
DigestSends(h, n) ==
    IF n = 0 THEN <<>>
    ELSE IF outbox[h][n].kind = "digest"
         THEN Append(DigestSends(h, n - 1), outbox[h][n].text)
         ELSE DigestSends(h, n - 1)

RECURSIVE ConcatAll(_)
ConcatAll(l) == IF Len(l) = 0 THEN "" ELSE l[1] \o ConcatAll(Tail(l))

Responded(h) == hs[h].at \in {"sending", "done", "failed"} /\ hs[h].k >= 1

\* C6: the messages the bot sends for one digest request are, in send order,
\* chunks of at most 2000 characters each that together are the rendered text
\* from its start, with nothing lost, duplicated or reordered; once the
\* handler has sent its last chunk their concatenation is the whole text; and
\* a text of at most 2000 characters is sent as one message.
C6_ChunksRebuildText ==
    \A h \in 1..Len(hs) :
       Responded(h) =>
          LET sent == DigestSends(h, Len(outbox[h]))
              joined == ConcatAll(sent)
          IN  /\ \A i \in 1..Len(sent) : Len(sent[i]) <= 2000
              /\ joined = SubSeq(hs[h].response, 1, Len(joined))
              /\ hs[h].at = "done" => joined = hs[h].response
              /\ Len(hs[h].response) <= 2000 => Len(sent) <= 1

\* C6 witness: a summary of 4001 characters went out in three messages
C6_Witness ==
    \E h \in 1..Len(hs) :
       /\ hs[h].at = "done"
       /\ Len(hs[h].response) = 4001
       /\ Len(DigestSends(h, Len(outbox[h]))) = 3

\* C7: a send that fails does not abort what follows: of a digest response
\* every chunk is attempted, each exactly once, whether or not an earlier
\* chunk's send failed.
C7_EveryChunkAttempted ==
    \A h \in 1..Len(hs) :
       (Responded(h) /\ hs[h].at \in {"done", "failed"}) =>
          DigestSends(h, Len(outbox[h])) = hs[h].chunks

\* the part of C7 the batch run does keep: every alert of a record loop is
\* POSTed once, whatever became of the POSTs before it
C7_BatchAlertsAttemptedOnce ==
    \A e \in 1..Len(processed) :
       processed[e].out = "alert" =>
          Cardinality({k \in 1..Len(posts) :
                          posts[k].fn = processed[e].fn /\ posts[k].rec = processed[e].rec})
             = Cardinality({f \in 1..Len(processed) :
                          processed[f].fn = processed[e].fn /\ processed[f].rec = processed[e].rec})

\* C9: a digest request classifies relative to the date it is made on,
\* whatever the date the process started on: the lists a handler gets from
\* get_user_tasks are the rule's lists for the calendar date of that moment.
C9_ClassifiedAtRequestDate ==
    [][\A h \in 1..Len(hs) :
          (hs[h].at = "fetching" /\ hs'[h].at = "sending" /\ hs'[h].tasks.t = "tasks") =>
             \A b \in Buckets :
                hs'[h].tasks[b] = ExpectedList(db, 1, b, hs[h].notion_name.s, clock)]_vars

\* what the code does instead: it classifies relative to the start date
C9_ClassifiedAtStartDate ==
    \A h \in 1..Len(hs) :
       hs[h].tasks.t = "tasks" =>
          \A b \in Buckets :
             hs[h].tasks[b] = ExpectedList(db, 1, b, hs[h].notion_name.s, today)

\* C10: while one user's digest handler waits for the task-source fetch, the
\* event loop is free: a command another user has sent can start being
\* handled before the fetch returns.
C10_FetchDoesNotBlockLoop ==
    \A h \in 1..Len(hs) :
       (hs[h].at = "fetching" /\ Len(inbox) > 0 /\ Head(inbox).author # hs[h].author)
          => ENABLED Dispatch

====
